---- MODULE Spec2Model ----
(***************************************************************************)
(* Order service (services/order-service/index.js): the in-memory order    *)
(* store, the POST /api/v1/orders handler with its awaited existence       *)
(* checks, and the two retrieval handlers.                                 *)
(*                                                                         *)
(* Node runs one handler continuation at a time; a handler gives up        *)
(* control only at an `await`.  Each action below is therefore one         *)
(* synchronous stretch of a handler: from its entry, or from the return    *)
(* of the awaited check, up to the next `await` or the response.           *)
(***************************************************************************)
EXTENDS Integers, Sequences, FiniteSets, TLC

\* ------------------------------------------------------------------ bounds
\* Number of HTTP requests of a run (numbered in arrival order).
MaxReq == 2
\* Item positions that all creation requests of a run carry together.
MaxItems == 2
\* Milliseconds the wall clock advances during a run.
MaxNow == 1

Reqs == 1..MaxReq

\* ------------------------------------------------------------ input values
UserIds == {"u1"}
ProductIds == {"p1", "p2"}
Quantities == {1}

\* One line item of a request body: {productId, quantity}.
Items == [productId : ProductIds, quantity : Quantities]

\* A JavaScript value that is either undefined or an array of line items.
JsUndefined == [defined |-> FALSE, list |-> <<>>]
JsArray(s) == [defined |-> TRUE, list |-> s]

\* The `items` field of a request body: absent, or an array of line items.
ItemsValues(n) ==
    {JsUndefined} \cup {JsArray(s) : s \in UNION {[1..k -> Items] : k \in 0..n}}

\* ------------------------------------------------------------------- clock
\* Date.now() is 1700000000000 + now: the wall clock in milliseconds, of
\* which the model counts the milliseconds since the process started.
ClockBase == "1700000000"

Digit == <<"0", "1", "2", "3", "4", "5", "6", "7", "8", "9">>

RECURSIVE Decimal(_)
\* Number.prototype.toString() of a non-negative integer.
Decimal(n) ==
    IF n < 10 THEN Digit[n + 1] ELSE Decimal(n \div 10) \o Digit[(n % 10) + 1]

\* The three low digits of the clock, zero-filled as the decimal positions
\* of 1700000000000 + t are for t < 1000.
LowDigits(t) ==
    (IF t < 10 THEN "00" ELSE IF t < 100 THEN "0" ELSE "") \o Decimal(t)

\* Date.now().toString()
DateNowToString(t) ==
    ClockBase \o LowDigits(t)

\* --------------------------------------------------------------- the store
\* An order record.
NoOrder == [id |-> "", userId |-> "", items |-> JsUndefined, status |-> ""]

\* Mutant: the items are stored sorted by product instead of as given.
MakeOrderSortsItems(orderId, userId, items) ==
    [id |-> orderId, userId |-> userId,
     items |-> IF Len(items.list) = 2
                  /\ items.list[1].productId = "p2" /\ items.list[2].productId = "p1"
               THEN JsArray(<<items.list[2], items.list[1]>>)
               ELSE items,
     status |-> "pending"]

\* Mutant: an order of no items is stored as confirmed at once.
MakeOrderConfirmsEmpty(orderId, userId, items) ==
    [id |-> orderId, userId |-> userId, items |-> items,
     status |-> IF items.list = <<>> THEN "confirmed" ELSE "pending"]

\* const order = { id: orderId, userId, items, status: 'pending' }
MakeOrder(orderId, userId, items) ==
    [id |-> orderId, userId |-> userId, items |-> items, status |-> "pending"]

\* Properties every plain object inherits from Object.prototype.
ObjectPrototypeProps ==
    {"constructor", "__proto__", "toString", "valueOf", "hasOwnProperty"}

\* `orders` is a plain object: its own properties in insertion order (the
\* keys are decimal strings above 2^32, so none is an array index).
HasOwn(store, k) == \E i \in DOMAIN store : store[i].key = k

OwnIndex(store, k) == CHOOSE i \in DOMAIN store : store[i].key = k

\* orders[k]: the own property, else the inherited one, else undefined.
PropertyGet(store, k) ==
    IF HasOwn(store, k)
    THEN [tag |-> "order", order |-> store[OwnIndex(store, k)].value]
    ELSE IF k = "__proto__" THEN [tag |-> "object", order |-> NoOrder]
    ELSE IF k \in ObjectPrototypeProps THEN [tag |-> "function", order |-> NoOrder]
    ELSE [tag |-> "undefined", order |-> NoOrder]

\* Mutant: a new key is enumerated before the older ones, as integer-like
\* keys would be if they were sorted newest first.
PropertySetPrepends(store, k, v) ==
    IF HasOwn(store, k)
    THEN [store EXCEPT ![OwnIndex(store, k)] = [key |-> k, value |-> v]]
    ELSE <<[key |-> k, value |-> v]>> \o store

\* Mutant: an existing key is kept (`if (!orders[k]) orders[k] = v`).
PropertySetKeepsFirst(store, k, v) ==
    IF HasOwn(store, k) THEN store ELSE Append(store, [key |-> k, value |-> v])

\* orders[k] = v: replaces the value of an own property in place, else adds
\* the property last.
PropertySet(store, k, v) ==
    IF HasOwn(store, k)
    THEN [store EXCEPT ![OwnIndex(store, k)] = [key |-> k, value |-> v]]
    ELSE Append(store, [key |-> k, value |-> v])

\* Mutant: the values are enumerated from index 1 on, as if 0-based, and the
\* first is lost.
ObjectValuesSkipsFirst(store) ==
    [i \in 1..(Len(store) - 1) |-> store[i + 1].value]

\* Object.values(orders)
ObjectValues(store) == [i \in DOMAIN store |-> store[i].value]

\* ---------------------------------------------------------------- responses
NoResponse ==
    [status |-> 0, kind |-> "none", order |-> NoOrder, error |-> "", orders |-> <<>>]

\* res.status(s).json(order)
OrderResponse(s, o) ==
    [status |-> s, kind |-> "order", order |-> o, error |-> "", orders |-> <<>>]

\* res.status(s).json({ error: msg })
ErrorResponse(s, msg) ==
    [status |-> s, kind |-> "error", order |-> NoOrder, error |-> msg, orders |-> <<>>]

\* res.json({ orders: [...] })
ListResponse(os) ==
    [status |-> 200, kind |-> "orders", order |-> NoOrder, error |-> "", orders |-> os]

\* res.json(v) of a value that is no order: a function serialises to nothing
\* (an empty 200 body), Object.prototype to "{}".
OtherResponse(tag) ==
    [status |-> 200, kind |-> tag, order |-> NoOrder, error |-> "", orders |-> <<>>]

\* app.get('/api/v1/orders/:id'): `if (order)` is true of every object and
\* function, false of undefined.
GetOrder(store, id) ==
    LET v == PropertyGet(store, id)
    IN  IF v.tag = "undefined" THEN ErrorResponse(404, "Order not found")
        ELSE IF v.tag = "order" THEN OrderResponse(200, v.order)
        ELSE OtherResponse(v.tag)

\* ------------------------------------------------------------------- state
VARIABLES
    now,      \* milliseconds the clock has advanced
    orders,   \* the store: own properties of `orders`, in insertion order
    pc,       \* per request: where its handler stands
    req,      \* per request: method and input
    calls,    \* per request: the axios.get calls it has issued, in order
    results,  \* per request: the outcomes of its calls that have returned
    resp,     \* per request: the response sent
    wrote,    \* history: the requests that have written to the store
    seen,     \* history: per request, the creations in flight when it arrived
    failure,  \* environment: per request, the message its failed check carried
    hung,     \* environment: the requests whose outstanding check never returns
    listed,   \* observer: the answer to the latest list taken between requests
    inventory, \* inventory service: the product map
    mu,        \* inventory service: the RWMutex guarding it
    lookups    \* inventory service: per goroutine, the request it serves

vars ==
    <<now, orders, pc, req, calls, results, resp, wrote, seen, failure, hung,
      listed, inventory, mu, lookups>>

\* The state of the order service's handlers, and that of the inventory
\* service (another process).
orderService ==
    <<now, orders, pc, req, calls, results, resp, wrote, seen, failure, hung, listed>>

inventoryService == <<inventory, mu, lookups>>

\* A request: its method, the :id of its path, and the fields of its JSON
\* body (userId, items, and an id and a status the caller may add; "" where
\* the field is absent).
NoRequest ==
    [method |-> "none", userId |-> "", items |-> JsUndefined, id |-> "", status |-> ""]

\* axios.get(`${USER_SERVICE_URL}/api/v1/users/${userId}`)
UserCall(userId) == [service |-> "user", id |-> userId]

\* axios.get(`${INVENTORY_SERVICE_URL}/api/v1/inventory/${item.productId}`)
ProductCall(item) == [service |-> "inventory", id |-> item.productId]

\* error.message of a failed check that reports the entity absent.
FailureMessage(call) ==
    IF call.service = "user" THEN "User not found" ELSE "Product not found"

\* The messages a failed check may carry: the service's own, or axios's text
\* for a non-2xx answer.
FailureTexts(call) ==
    {FailureMessage(call), "Request failed with status code 404"}

InFlight(r) == pc[r] \in {"awaitUser", "awaitItem"}

\* Item positions carried by the creation requests received so far.
RECURSIVE ItemsReceived(_)
ItemsReceived(r) ==
    IF r = 0 THEN 0 ELSE Len(req[r].items.list) + ItemsReceived(r - 1)

\* Identifiers a retrieval may ask for.
GetIds ==
    {DateNowToString(t) : t \in 0..MaxNow}
        \cup {"nonexistent", "constructor", "__proto__", "toString"}

\* ------------------------------------------------------- inventory service
\* (services/inventory-service/main.go: a separate process; net/http runs
\* every request in a goroutine of its own.)

\* Requests the inventory service serves at a time.
MaxLookups == 2

Lookups == 1..MaxLookups

\* The zero value of type Product (prices in hundredths).
ZeroProduct == [ID |-> "", Name |-> "", Quantity |-> 0, Price |-> 0]

\* The inventory main() sets up before it starts serving.
MainInventory ==
    [k \in {"prod-1", "prod-2"} |->
        IF k = "prod-1"
        THEN [ID |-> "prod-1", Name |-> "Widget", Quantity |-> 100, Price |-> 2999]
        ELSE [ID |-> "prod-2", Name |-> "Gadget", Quantity |-> 50, Price |-> 4999]]

\* product, exists := m[k]
MapGet(m, k) ==
    IF k \in DOMAIN m
    THEN [product |-> m[k], exists |-> TRUE]
    ELSE [product |-> ZeroProduct, exists |-> FALSE]

ProductPrefix == "/api/v1/inventory/"

\* Paths the mux routes to getProductHandler.
ProductPaths ==
    {ProductPrefix \o id : id \in {"prod-1", "prod-2", "nonexistent", ""}}

\* r.URL.Path[len("/api/v1/inventory/"):]
PathProductID(path) ==
    SubSeq(path, Len(ProductPrefix) + 1, Len(path))

\* json.NewEncoder(w).Encode(product): the fields under their json tags.
EncodeProduct(p) ==
    [id |-> p.ID, name |-> p.Name, quantity |-> p.Quantity, price |-> p.Price]

\* What a ResponseWriter has been given: the status, and the body as a
\* product, an error text or a product list.
NoReply ==
    [status |-> 0, product |-> EncodeProduct(ZeroProduct), error |-> "", products |-> {}]

\* Encode without WriteHeader answers 200.
ProductReply(p) ==
    [status |-> 200, product |-> EncodeProduct(p), error |-> "", products |-> {}]

\* w.WriteHeader(http.StatusNotFound); Encode({"error": "Product not found"})
NotFoundReply ==
    [status |-> 404, product |-> EncodeProduct(ZeroProduct),
     error |-> "Product not found", products |-> {}]

\* Encode({"products": products}); the slice in map order, kept as a set.
InventoryReply(m) ==
    [status |-> 200, product |-> EncodeProduct(ZeroProduct), error |-> "",
     products |-> {EncodeProduct(m[k]) : k \in DOMAIN m}]

\* A goroutine of the server: the handler it runs and where it stands, the
\* handler's locals, and the response written.
NoLookup ==
    [pc |-> "idle", handler |-> "", productID |-> "", product |-> ZeroProduct,
     exists |-> FALSE, reply |-> NoReply]

\* sync.RWMutex: the readers holding it, and whether a writer does.
RWMutexZero == [readers |-> 0, writer |-> FALSE]

Init ==
    /\ listed = NoResponse
    /\ inventory = MainInventory
    /\ mu = RWMutexZero
    /\ lookups = [g \in Lookups |-> NoLookup]
    /\ now = 0
    /\ orders = <<>>
    /\ pc = [r \in Reqs |-> "idle"]
    /\ req = [r \in Reqs |-> NoRequest]
    /\ calls = [r \in Reqs |-> <<>>]
    /\ results = [r \in Reqs |-> <<>>]
    /\ resp = [r \in Reqs |-> NoResponse]
    /\ wrote = {}
    /\ seen = [r \in Reqs |-> {}]
    /\ failure = [r \in Reqs |-> ""]
    /\ hung = {}

\* Request r is the next to arrive.
Arrives(r) ==
    /\ pc[r] = "idle"
    /\ \A q \in 1..(r - 1) : pc[q] # "idle"

\* The wall clock advances by a millisecond.
Tick ==
    /\ now < MaxNow
    /\ now' = now + 1
    /\ UNCHANGED <<orders, pc, req, calls, results, resp, wrote, seen, failure, hung,
                   listed, inventoryService>>

\* app.get('/api/v1/orders'): synchronous, responds at once.
ListOrders(r) ==
    /\ Arrives(r)
    /\ req' = [req EXCEPT ![r] = [NoRequest EXCEPT !.method = "LIST"]]
    /\ resp' = [resp EXCEPT ![r] = ListResponse(ObjectValues(orders))]
    /\ pc' = [pc EXCEPT ![r] = "done"]
    /\ seen' = [seen EXCEPT ![r] = {q \in Reqs : InFlight(q)}]
    /\ UNCHANGED <<now, orders, calls, results, wrote, failure, hung,
                   listed, inventoryService>>

\* app.get('/api/v1/orders/:id'): synchronous, responds at once.
GetOrderById(r, id) ==
    /\ Arrives(r)
    /\ req' = [req EXCEPT ![r] = [NoRequest EXCEPT !.method = "GET", !.id = id]]
    /\ resp' = [resp EXCEPT ![r] = GetOrder(orders, id)]
    /\ pc' = [pc EXCEPT ![r] = "done"]
    /\ seen' = [seen EXCEPT ![r] = {q \in Reqs : InFlight(q)}]
    /\ UNCHANGED <<now, orders, calls, results, wrote, failure, hung,
                   listed, inventoryService>>

\* Mutant: the user check and all item checks are issued together
\* (Promise.all) and awaited as one.
PostOrdersParallel(r, userId, items) ==
    /\ Arrives(r)
    /\ ItemsReceived(MaxReq) + Len(items.list) <= MaxItems
    /\ req' = [req EXCEPT ![r] =
                 [method |-> "POST", userId |-> userId, items |-> items,
                  id |-> "", status |-> ""]]
    /\ calls' = [calls EXCEPT ![r] =
                   <<UserCall(userId)>>
                       \o [i \in 1..Len(items.list) |-> ProductCall(items.list[i])]]
    /\ pc' = [pc EXCEPT ![r] = "awaitUser"]
    /\ seen' = [seen EXCEPT ![r] = {q \in Reqs : InFlight(q)}]
    /\ UNCHANGED <<now, orders, results, resp, wrote, failure, hung,
                   listed, inventoryService>>

\* app.post('/api/v1/orders'), from its entry to the first await: userId and
\* items are destructured from the body, whatever else the body carries, and
\* the user check is issued.
PostOrdersBody(r, userId, items, bodyId, bodyStatus) ==
    /\ Arrives(r)
    /\ ItemsReceived(MaxReq) + Len(items.list) <= MaxItems
    /\ req' = [req EXCEPT ![r] =
                 [method |-> "POST", userId |-> userId, items |-> items,
                  id |-> bodyId, status |-> bodyStatus]]
    /\ calls' = [calls EXCEPT ![r] = <<UserCall(userId)>>]
    /\ pc' = [pc EXCEPT ![r] = "awaitUser"]
    /\ seen' = [seen EXCEPT ![r] = {q \in Reqs : InFlight(q)}]
    /\ UNCHANGED <<now, orders, results, resp, wrote, failure, hung,
                   listed, inventoryService>>

\* The same for a body of userId and items alone.
PostOrders(r, userId, items) ==
    PostOrdersBody(r, userId, items, "", "")

\* The outstanding check of request r is one that returns.
Returning(r) == InFlight(r) /\ r \notin hung

\* The check request r awaits never returns (axios.get is given no timeout).
CheckNeverReturns(r) ==
    /\ Returning(r)
    /\ hung' = hung \cup {r}
    /\ UNCHANGED <<now, orders, pc, req, calls, results, resp, wrote, seen, failure,
                   listed, inventoryService>>

\* Mutant: the order is put in the store before it is validated, and a failed
\* check leaves it there.
CheckFailsAfterWrite(r) ==
    /\ Returning(r)
    /\ results' = [results EXCEPT ![r] = Append(@, "fail")]
    /\ \E m \in FailureTexts(calls[r][Len(calls[r])]) :
          /\ failure' = [failure EXCEPT ![r] = m]
          /\ resp' = [resp EXCEPT ![r] = ErrorResponse(400, m)]
    /\ pc' = [pc EXCEPT ![r] = "rejected"]
    /\ orders' = PropertySet(orders, DateNowToString(now),
                     MakeOrder(DateNowToString(now), req[r].userId, req[r].items))
    /\ UNCHANGED <<now, req, calls, wrote, seen, hung,
                   listed, inventoryService>>

\* Mutant: a failed check is swallowed while items remain, and the loop goes
\* on to the next item.
CheckFailsContinues(r) ==
    /\ Returning(r)
    /\ results' = [results EXCEPT ![r] = Append(@, "fail")]
    /\ failure' = [failure EXCEPT ![r] = FailureMessage(calls[r][Len(calls[r])])]
    /\ IF req[r].items.defined /\ Len(calls[r]) <= Len(req[r].items.list)
       THEN /\ calls' = [calls EXCEPT ![r] =
                          Append(@, ProductCall(req[r].items.list[Len(calls[r])]))]
            /\ pc' = [pc EXCEPT ![r] = "awaitItem"]
            /\ UNCHANGED resp
       ELSE /\ resp' = [resp EXCEPT ![r] =
                         ErrorResponse(400, FailureMessage(calls[r][Len(calls[r])]))]
            /\ pc' = [pc EXCEPT ![r] = "rejected"]
            /\ UNCHANGED calls
    /\ UNCHANGED <<now, orders, req, wrote, seen, hung,
                   listed, inventoryService>>

\* Mutant: the first failed check of a request is issued once more.
CheckFailsRetries(r) ==
    /\ Returning(r)
    /\ results' = [results EXCEPT ![r] = Append(@, "fail")]
    /\ failure' = [failure EXCEPT ![r] = FailureMessage(calls[r][Len(calls[r])])]
    /\ IF \A i \in DOMAIN results[r] : results[r][i] = "ok"
       THEN /\ calls' = [calls EXCEPT ![r] = Append(@, calls[r][Len(calls[r])])]
            /\ UNCHANGED <<pc, resp>>
       ELSE /\ resp' = [resp EXCEPT ![r] =
                         ErrorResponse(400, FailureMessage(calls[r][Len(calls[r])]))]
            /\ pc' = [pc EXCEPT ![r] = "rejected"]
            /\ UNCHANGED calls
    /\ UNCHANGED <<now, orders, req, wrote, seen, hung,
                   listed, inventoryService>>

\* Mutant: the catch block answers with a text of its own.
CheckFailsGenericMessage(r) ==
    /\ Returning(r)
    /\ results' = [results EXCEPT ![r] = Append(@, "fail")]
    /\ \E m \in FailureTexts(calls[r][Len(calls[r])]) :
          /\ failure' = [failure EXCEPT ![r] = m]
          /\ resp' = [resp EXCEPT ![r] =
                        ErrorResponse(400, FailureMessage(calls[r][Len(calls[r])]))]
    /\ pc' = [pc EXCEPT ![r] = "rejected"]
    /\ UNCHANGED <<now, orders, req, calls, wrote, seen, hung,
                   listed, inventoryService>>

\* Mutant: the failure is kept in a variable the handlers share, and every
\* request in flight is answered with it.
CheckFailsRejectsAll(r) ==
    /\ Returning(r)
    /\ results' = [results EXCEPT ![r] = Append(@, "fail")]
    /\ \E m \in FailureTexts(calls[r][Len(calls[r])]) :
          /\ failure' = [failure EXCEPT ![r] = m]
          /\ resp' = [q \in Reqs |->
                        IF InFlight(q) THEN ErrorResponse(400, m) ELSE resp[q]]
    /\ pc' = [q \in Reqs |-> IF InFlight(q) THEN "rejected" ELSE pc[q]]
    /\ UNCHANGED <<now, orders, req, calls, wrote, seen, hung,
                   listed, inventoryService>>

\* Mutant: no catch block; the rejection ends the handler and no response
\* is sent.
CheckFailsUncaught(r) ==
    /\ Returning(r)
    /\ results' = [results EXCEPT ![r] = Append(@, "fail")]
    /\ \E m \in FailureTexts(calls[r][Len(calls[r])]) :
          failure' = [failure EXCEPT ![r] = m]
    /\ pc' = [pc EXCEPT ![r] = "thrown"]
    /\ UNCHANGED <<now, orders, req, calls, resp, wrote, seen, hung,
                   listed, inventoryService>>

\* Mutant: a check that does not return is given up after a timeout and
\* counted as failed.
CheckFailsOnTimeout(r) ==
    /\ InFlight(r)
    /\ results' = [results EXCEPT ![r] = Append(@, "fail")]
    /\ \E m \in FailureTexts(calls[r][Len(calls[r])]) :
          /\ failure' = [failure EXCEPT ![r] = m]
          /\ resp' = [resp EXCEPT ![r] = ErrorResponse(400, m)]
    /\ pc' = [pc EXCEPT ![r] = "rejected"]
    /\ UNCHANGED <<now, orders, req, calls, wrote, seen, hung,
                   listed, inventoryService>>

\* The awaited check rejects: the catch block answers 400 with its message.
CheckFails(r) ==
    /\ Returning(r)
    /\ results' = [results EXCEPT ![r] = Append(@, "fail")]
    /\ \E m \in FailureTexts(calls[r][Len(calls[r])]) :
          /\ failure' = [failure EXCEPT ![r] = m]
          /\ resp' = [resp EXCEPT ![r] = ErrorResponse(400, m)]
    /\ pc' = [pc EXCEPT ![r] = "rejected"]
    /\ UNCHANGED <<now, orders, req, calls, wrote, seen, hung,
                   listed, inventoryService>>

\* Mutant: a missing `items` is read as no items (`items || []`) and the
\* order is stored as it came.
CheckOkNotIterableStoresAsIs(r) ==
    /\ Returning(r)
    /\ pc[r] = "awaitUser"
    /\ ~req[r].items.defined
    /\ LET orderId == DateNowToString(now)
           order == MakeOrder(orderId, req[r].userId, req[r].items)
       IN  /\ orders' = PropertySet(orders, orderId, order)
           /\ resp' = [resp EXCEPT ![r] = OrderResponse(201, order)]
    /\ results' = [results EXCEPT ![r] = Append(@, "ok")]
    /\ pc' = [pc EXCEPT ![r] = "accepted"]
    /\ wrote' = wrote \cup {r}
    /\ UNCHANGED <<now, req, calls, seen, failure, hung,
                   listed, inventoryService>>

\* The user check resolves and `items` is not iterable: for...of throws a
\* TypeError, which the catch block answers with 400.
CheckOkNotIterable(r) ==
    /\ Returning(r)
    /\ pc[r] = "awaitUser"
    /\ ~req[r].items.defined
    /\ results' = [results EXCEPT ![r] = Append(@, "ok")]
    /\ resp' = [resp EXCEPT ![r] = ErrorResponse(400, "items is not iterable")]
    /\ pc' = [pc EXCEPT ![r] = "rejected"]
    /\ UNCHANGED <<now, orders, req, calls, wrote, seen, failure, hung,
                   listed, inventoryService>>

\* Mutant: the loop walks the items from the last to the first.
CheckOkNextItemReversed(r) ==
    /\ Returning(r)
    /\ req[r].items.defined
    /\ Len(calls[r]) <= Len(req[r].items.list)
    /\ results' = [results EXCEPT ![r] = Append(@, "ok")]
    /\ calls' = [calls EXCEPT ![r] =
                   Append(@, ProductCall(
                       req[r].items.list[Len(req[r].items.list) + 1 - Len(calls[r])]))]
    /\ pc' = [pc EXCEPT ![r] = "awaitItem"]
    /\ UNCHANGED <<now, orders, req, resp, wrote, seen, failure, hung,
                   listed, inventoryService>>

\* The awaited check resolves and the loop has another item: its check is
\* issued and the handler awaits it.
CheckOkNextItem(r) ==
    /\ Returning(r)
    /\ req[r].items.defined
    /\ Len(calls[r]) <= Len(req[r].items.list)
    /\ results' = [results EXCEPT ![r] = Append(@, "ok")]
    /\ calls' = [calls EXCEPT ![r] =
                   Append(@, ProductCall(req[r].items.list[Len(calls[r])]))]
    /\ pc' = [pc EXCEPT ![r] = "awaitItem"]
    /\ UNCHANGED <<now, orders, req, resp, wrote, seen, failure, hung,
                   listed, inventoryService>>

\* Mutant: the order is created as soon as any check resolves, whether or not
\* items remain to be checked.
CheckOkCreateSkipsItems(r) ==
    /\ Returning(r)
    /\ req[r].items.defined
    /\ LET orderId == DateNowToString(now)
           order == MakeOrder(orderId, req[r].userId, req[r].items)
       IN  /\ orders' = PropertySet(orders, orderId, order)
           /\ resp' = [resp EXCEPT ![r] = OrderResponse(201, order)]
    /\ results' = [results EXCEPT ![r] = Append(@, "ok")]
    /\ pc' = [pc EXCEPT ![r] = "accepted"]
    /\ wrote' = wrote \cup {r}
    /\ UNCHANGED <<now, req, calls, seen, failure, hung,
                   listed, inventoryService>>

\* Mutant: the store write is awaited, so the handler is suspended between
\* taking the id and inserting the record.
CheckOkCreateSuspends(r) ==
    /\ Returning(r)
    /\ req[r].items.defined
    /\ Len(calls[r]) = Len(req[r].items.list) + 1
    /\ results' = [results EXCEPT ![r] = Append(@, "ok")]
    /\ pc' = [pc EXCEPT ![r] = "saving"]
    /\ UNCHANGED <<now, orders, req, calls, resp, wrote, seen, failure, hung,
                   listed, inventoryService>>

\* Mutant: an order without items is refused (`if (!items.length) throw`).
CheckOkCreateRequiresItems(r) ==
    /\ Returning(r)
    /\ req[r].items.defined
    /\ Len(calls[r]) = Len(req[r].items.list) + 1
    /\ results' = [results EXCEPT ![r] = Append(@, "ok")]
    /\ IF req[r].items.list = <<>>
       THEN /\ resp' = [resp EXCEPT ![r] = ErrorResponse(400, "items must not be empty")]
            /\ pc' = [pc EXCEPT ![r] = "rejected"]
            /\ UNCHANGED <<orders, wrote>>
       ELSE LET orderId == DateNowToString(now)
                order == MakeOrder(orderId, req[r].userId, req[r].items)
            IN  /\ orders' = PropertySet(orders, orderId, order)
                /\ resp' = [resp EXCEPT ![r] = OrderResponse(201, order)]
                /\ pc' = [pc EXCEPT ![r] = "accepted"]
                /\ wrote' = wrote \cup {r}
    /\ UNCHANGED <<now, req, calls, seen, failure, hung,
                   listed, inventoryService>>

\* Mutant: the record is stored under the number of orders so far, not under
\* its id (`orders[Object.keys(orders).length] = order`).
CheckOkCreateKeyedByCount(r) ==
    /\ Returning(r)
    /\ req[r].items.defined
    /\ Len(calls[r]) = Len(req[r].items.list) + 1
    /\ LET orderId == DateNowToString(now)
           order == MakeOrder(orderId, req[r].userId, req[r].items)
       IN  /\ orders' = PropertySet(orders, Decimal(Len(orders)), order)
           /\ resp' = [resp EXCEPT ![r] = OrderResponse(201, order)]
    /\ results' = [results EXCEPT ![r] = Append(@, "ok")]
    /\ pc' = [pc EXCEPT ![r] = "accepted"]
    /\ wrote' = wrote \cup {r}
    /\ UNCHANGED <<now, req, calls, seen, failure, hung,
                   listed, inventoryService>>

\* Mutant: the record is built by spreading the body over the generated
\* fields, so an id or status of the caller's replaces them.
CheckOkCreateSpreadsBody(r) ==
    /\ Returning(r)
    /\ req[r].items.defined
    /\ Len(calls[r]) = Len(req[r].items.list) + 1
    /\ LET orderId == DateNowToString(now)
           order == [id |-> IF req[r].id # "" THEN req[r].id ELSE orderId,
                     userId |-> req[r].userId,
                     items |-> req[r].items,
                     status |-> IF req[r].status # "" THEN req[r].status
                                ELSE "pending"]
       IN  /\ orders' = PropertySet(orders, orderId, order)
           /\ resp' = [resp EXCEPT ![r] = OrderResponse(201, order)]
    /\ results' = [results EXCEPT ![r] = Append(@, "ok")]
    /\ pc' = [pc EXCEPT ![r] = "accepted"]
    /\ wrote' = wrote \cup {r}
    /\ UNCHANGED <<now, req, calls, seen, failure, hung,
                   listed, inventoryService>>

\* The awaited check resolves and the loop is over: the id is taken from the
\* clock, the order is written to the store and answered with 201.
CheckOkCreate(r) ==
    /\ Returning(r)
    /\ req[r].items.defined
    /\ Len(calls[r]) = Len(req[r].items.list) + 1
    /\ LET orderId == DateNowToString(now)
           order == MakeOrder(orderId, req[r].userId, req[r].items)
       IN  /\ orders' = PropertySet(orders, orderId, order)
           /\ resp' = [resp EXCEPT ![r] = OrderResponse(201, order)]
    /\ results' = [results EXCEPT ![r] = Append(@, "ok")]
    /\ pc' = [pc EXCEPT ![r] = "accepted"]
    /\ wrote' = wrote \cup {r}
    /\ UNCHANGED <<now, req, calls, seen, failure, hung,
                   listed, inventoryService>>

Next ==
    \/ Tick
    \/ \E r \in Reqs : ListOrders(r)
    \/ \E r \in Reqs, id \in GetIds : GetOrderById(r, id)
    \/ \E r \in Reqs, u \in UserIds, items \in ItemsValues(MaxItems) :
          PostOrders(r, u, items)
    \/ \E r \in Reqs : CheckFails(r)
    \/ \E r \in Reqs : CheckOkNotIterable(r)
    \/ \E r \in Reqs : CheckOkNextItem(r)
    \/ \E r \in Reqs : CheckOkCreate(r)

\* Every awaited check returns in the end.
Spec == Init /\ [][Next]_vars

\* The return of the check request r awaits, whatever its outcome.
CheckReturns(r) ==
    \/ CheckFails(r)
    \/ CheckOkNotIterable(r)
    \/ CheckOkNextItem(r)
    \/ CheckOkCreate(r)

\* Values of the id and status fields a caller may add to a creation body.
BodyIds == {"my-id"}
BodyStatuses == {"shipped"}

\* Creation bodies carry an id and a status of the caller's.
NextBody ==
    \/ Tick
    \/ \E r \in Reqs : ListOrders(r)
    \/ \E r \in Reqs, id \in GetIds : GetOrderById(r, id)
    \/ \E r \in Reqs, u \in UserIds, items \in ItemsValues(MaxItems),
          bodyId \in BodyIds, bodyStatus \in BodyStatuses :
          PostOrdersBody(r, u, items, bodyId, bodyStatus)
    \/ \E r \in Reqs : CheckFails(r)
    \/ \E r \in Reqs : CheckOkNotIterable(r)
    \/ \E r \in Reqs : CheckOkNextItem(r)
    \/ \E r \in Reqs : CheckOkCreate(r)

SpecBody == Init /\ [][NextBody]_vars

NextHang ==
    \/ Next
    \/ \E r \in Reqs : CheckNeverReturns(r)

\* An awaited check may never return; one that is to return does so in the
\* end, and the event loop then runs the handler's continuation.
FairSpec ==
    Init /\ [][NextHang]_vars /\ \A r \in Reqs : WF_vars(CheckReturns(r))

\* A list request served between the steps of the numbered requests; its
\* answer is kept until the next one.
ListNow ==
    /\ listed' = ListResponse(ObjectValues(orders))
    /\ UNCHANGED <<now, orders, pc, req, calls, results, resp, wrote, seen, failure,
                   hung, inventoryService>>

\* The creations of a run, with lists taken at any moment between their steps.
NextList ==
    \/ Tick
    \/ \E r \in Reqs, u \in UserIds, items \in ItemsValues(MaxItems) :
          PostOrders(r, u, items)
    \/ \E r \in Reqs : CheckFails(r)
    \/ \E r \in Reqs : CheckOkNotIterable(r)
    \/ \E r \in Reqs : CheckOkNextItem(r)
    \/ \E r \in Reqs : CheckOkCreate(r)
    \/ ListNow

SpecList == Init /\ [][NextList]_vars

\* ------------------------------------------- inventory service: the handlers
\* getProductHandler, entry: the product id is cut from the path.
GetProductHandler(g, path) ==
    /\ lookups[g].pc = "idle"
    /\ lookups' = [lookups EXCEPT ![g] =
                     [NoLookup EXCEPT !.pc = "rlock", !.handler = "product",
                                      !.productID = PathProductID(path)]]
    /\ UNCHANGED <<orderService, inventory, mu>>

\* mu.RLock(): waits while a writer holds the mutex.
ProductRLock(g) ==
    /\ lookups[g].pc = "rlock"
    /\ ~mu.writer
    /\ mu' = [mu EXCEPT !.readers = @ + 1]
    /\ lookups' = [lookups EXCEPT ![g].pc = "read"]
    /\ UNCHANGED <<orderService, inventory>>

\* Mutant: the handler returns 404 from inside the locked section, past the
\* RUnlock.
ProductReadReturnsEarly(g) ==
    /\ lookups[g].pc = "read"
    /\ LET v == MapGet(inventory, lookups[g].productID)
       IN  lookups' = [lookups EXCEPT ![g] =
                         IF v.exists
                         THEN [@ EXCEPT !.pc = "runlock", !.product = v.product,
                                        !.exists = TRUE]
                         ELSE [@ EXCEPT !.pc = "done", !.reply = NotFoundReply]]
    /\ UNCHANGED <<orderService, inventory, mu>>

\* product, exists := inventory[productID]
ProductRead(g) ==
    /\ lookups[g].pc = "read"
    /\ LET v == MapGet(inventory, lookups[g].productID)
       IN  lookups' = [lookups EXCEPT ![g] =
                         [@ EXCEPT !.pc = "runlock", !.product = v.product,
                                   !.exists = v.exists]]
    /\ UNCHANGED <<orderService, inventory, mu>>

\* mu.RUnlock()
ProductRUnlock(g) ==
    /\ lookups[g].pc = "runlock"
    /\ mu.readers > 0
    /\ mu' = [mu EXCEPT !.readers = @ - 1]
    /\ lookups' = [lookups EXCEPT ![g].pc = "respond"]
    /\ UNCHANGED <<orderService, inventory>>

\* The response: the product if it exists, else 404 'Product not found'.
ProductRespond(g) ==
    /\ lookups[g].pc = "respond"
    /\ lookups' = [lookups EXCEPT ![g] =
                     [@ EXCEPT !.pc = "done",
                               !.reply = IF lookups[g].exists
                                         THEN ProductReply(lookups[g].product)
                                         ELSE NotFoundReply]]
    /\ UNCHANGED <<orderService, inventory, mu>>

\* getInventoryHandler, entry.
GetInventoryHandler(g) ==
    /\ lookups[g].pc = "idle"
    /\ lookups' = [lookups EXCEPT ![g] =
                     [NoLookup EXCEPT !.pc = "listRLock", !.handler = "inventory"]]
    /\ UNCHANGED <<orderService, inventory, mu>>

\* mu.RLock(); defer mu.RUnlock()
InventoryRLock(g) ==
    /\ lookups[g].pc = "listRLock"
    /\ ~mu.writer
    /\ mu' = [mu EXCEPT !.readers = @ + 1]
    /\ lookups' = [lookups EXCEPT ![g].pc = "listing"]
    /\ UNCHANGED <<orderService, inventory>>

\* The products are collected and encoded, and the deferred RUnlock runs as
\* the handler returns.
InventoryRespond(g) ==
    /\ lookups[g].pc = "listing"
    /\ mu.readers > 0
    /\ mu' = [mu EXCEPT !.readers = @ - 1]
    /\ lookups' = [lookups EXCEPT ![g] =
                     [@ EXCEPT !.pc = "done", !.reply = InventoryReply(inventory)]]
    /\ UNCHANGED <<orderService, inventory>>

\* A step of the handler goroutine g is running.
LookupStep(g) ==
    \/ ProductRLock(g)
    \/ ProductRead(g)
    \/ ProductRUnlock(g)
    \/ ProductRespond(g)
    \/ InventoryRLock(g)
    \/ InventoryRespond(g)

NextInventory ==
    \/ \E g \in Lookups, path \in ProductPaths : GetProductHandler(g, path)
    \/ \E g \in Lookups : GetInventoryHandler(g)
    \/ \E g \in Lookups : ProductRLock(g)
    \/ \E g \in Lookups : ProductRead(g)
    \/ \E g \in Lookups : ProductRUnlock(g)
    \/ \E g \in Lookups : ProductRespond(g)
    \/ \E g \in Lookups : InventoryRLock(g)
    \/ \E g \in Lookups : InventoryRespond(g)

\* The Go scheduler runs every runnable goroutine in the end.
SpecInventory ==
    Init /\ [][NextInventory]_vars /\ \A g \in Lookups : WF_vars(LookupStep(g))

\* ------------------------------------------------------ terms of the claims
IsPost(r) == req[r].method = "POST"

Accepted(r) == pc[r] = "accepted"

Rejected(r) == pc[r] = "rejected"

\* Some check of request r has returned a failure.
Failed(r) == \E i \in DOMAIN results[r] : results[r][i] = "fail"

\* The user check and every item check of request r have returned success.
AllChecksOk(r) ==
    /\ req[r].items.defined
    /\ Len(results[r]) = 1 + Len(req[r].items.list)
    /\ \A i \in DOMAIN results[r] : results[r][i] = "ok"

\* The calls a creation request makes when no check fails: the user, then
\* each item position in list order.
ExpectedCalls(r) ==
    <<UserCall(req[r].userId)>>
        \o [i \in 1..Len(req[r].items.list) |-> ProductCall(req[r].items.list[i])]

\* Requests q and r were in flight at the same time.
Concurrent(q, r) == q \in seen[r] \/ r \in seen[q]

\* ------------------------------------------------------------------ claims

\* C1, state part: every record in the store is the record written by a
\* creation request all of whose checks had returned success, and a request
\* with a failed check has written nothing.
C1_StoreInv ==
    /\ \A i \in DOMAIN orders :
          \E r \in wrote : /\ orders[i].value = resp[r].order
                           /\ orders[i].key = resp[r].order.id
    /\ \A r \in wrote : IsPost(r) /\ AllChecksOk(r) /\ Accepted(r)
    /\ \A r \in Reqs : (Failed(r) \/ Rejected(r)) => r \notin wrote

\* C1, step part: the store changes only in the step in which a request is
\* accepted; every other step of a request leaves the store as it was.
C1_Step ==
    /\ \A r \in Reqs : (pc'[r] # pc[r] /\ pc'[r] # "accepted") => orders' = orders
    /\ orders' # orders => \E r \in Reqs : pc[r] # "accepted" /\ pc'[r] = "accepted"
    /\ \A r \in Reqs : (r \in wrote') = (r \in wrote \/ (pc[r] # pc'[r] /\ pc'[r] = "accepted"))

\* C1: in every reachable state every record in the order store was written
\* by a creation request whose user check and item checks had all returned
\* success, and a request whose user check or any item check fails performs
\* no write to the store at any of its steps.
C1_NoTraceOfFailedCreation == []C1_StoreInv /\ [][C1_Step]_vars

\* C1 witness: one request was rejected on an item check after its user check
\* succeeded, another was accepted, and the store holds the accepted one only.
C1_Witness ==
    \E q, r \in Reqs :
        /\ Rejected(q) /\ Len(results[q]) = 2 /\ results[q][2] = "fail"
        /\ Accepted(r)
        /\ Len(orders) = 1 /\ orders[1].value = resp[r].order

\* C2: N creation requests with pairwise distinct inputs, in flight together
\* and all accepted, leave N records in the store and have N pairwise
\* different ids.
C2_ConcurrentCreationsDistinct ==
    LET P == {r \in Reqs : IsPost(r)}
    IN  (/\ P # {}
         /\ \A r \in P : Accepted(r)
         /\ \A q, r \in P : q # r => Concurrent(q, r) /\ req[q] # req[r])
        => /\ Len(orders) = Cardinality(P)
           /\ \A q, r \in P : q # r => resp[q].order.id # resp[r].order.id

\* C3: any two successful creations return different ids, also when the
\* second was issued only after the first had responded.
C3_IdsNeverReused ==
    \A q, r \in Reqs :
        (q # r /\ Accepted(q) /\ Accepted(r)) => resp[q].order.id # resp[r].order.id

\* C4: once an id maps to a record in the store it maps to that same record
\* in every later state: no step overwrites, mutates or removes a record.
C4_RecordsNeverChange ==
    [][\A i \in DOMAIN orders :
          /\ HasOwn(orders', orders[i].key)
          /\ PropertyGet(orders', orders[i].key) = PropertyGet(orders, orders[i].key)]_vars

\* C5: within one creation request the user check is issued first and has
\* returned before any item check is issued, and the item checks are issued
\* in list order, each only after the one before it returned success.
C5_ChecksInOrder ==
    \A r \in Reqs : IsPost(r) =>
        /\ Len(calls[r]) >= 1
        /\ Len(calls[r]) <= Len(ExpectedCalls(r))
        /\ calls[r] = SubSeq(ExpectedCalls(r), 1, Len(calls[r]))
        /\ Len(results[r]) >= Len(calls[r]) - 1
        /\ \A i \in 1..(Len(calls[r]) - 1) : results[r][i] = "ok"

\* C5 witness: a request with two different products has issued the check of
\* its second item while another request is in flight.
C5_Witness ==
    \E q, r \in Reqs :
        /\ q # r /\ InFlight(q) /\ InFlight(r)
        /\ Len(req[r].items.list) = 2
        /\ req[r].items.list[1].productId # req[r].items.list[2].productId
        /\ Len(calls[r]) = 3

\* C6: a creation request that has ended with none of its checks failed has
\* made exactly 1 + len(items) calls: the user check and one product check
\* per item position, repeated products included.
C6_CallCount ==
    \A r \in Reqs :
        (IsPost(r) /\ req[r].items.defined /\ pc[r] \in {"accepted", "rejected"}
            /\ ~Failed(r))
        => /\ Len(calls[r]) = 1 + Len(req[r].items.list)
           /\ calls[r] = ExpectedCalls(r)
           /\ Len(results[r]) = Len(calls[r])

\* C6 witness: an accepted request whose two items name the same product.
C6_Witness ==
    \E r \in Reqs :
        /\ Accepted(r)
        /\ Len(req[r].items.list) = 2
        /\ req[r].items.list[1].productId = req[r].items.list[2].productId
        /\ Len(calls[r]) = 3

\* C7: a creation request whose user check failed has issued no item check.
C7_UserFailureStopsChecks ==
    \A r \in Reqs :
        (IsPost(r) /\ Len(results[r]) >= 1 /\ results[r][1] = "fail")
        => Len(calls[r]) = 1 /\ calls[r][1].service = "user"

\* C7 witness: a request with two items was rejected on its user check.
C7_Witness ==
    \E r \in Reqs :
        /\ Rejected(r) /\ Len(req[r].items.list) = 2
        /\ results[r] = <<"fail">>
        /\ resp[r].status = 400

\* C8: when the check of item k fails, items k+1..n are never checked, the
\* failed check is not issued again, and no order of that request is stored.
C8_ItemFailureStopsChecks ==
    \A r \in Reqs : \A k \in 1..MaxItems :
        (IsPost(r) /\ Len(results[r]) >= k + 1 /\ results[r][k + 1] = "fail")
        => /\ Len(calls[r]) = k + 1
           /\ Len(results[r]) = k + 1
           /\ r \notin wrote
           /\ Rejected(r) /\ resp[r].kind = "error"

\* C8 witness: the first of two items failed and the request was rejected.
C8_Witness ==
    \E r \in Reqs :
        /\ Rejected(r) /\ Len(req[r].items.list) = 2
        /\ results[r] = <<"ok", "fail">>
        /\ Len(calls[r]) = 2

\* C9: in the state a successful creation leaves, a get with the returned id
\* answers 200 with a record identical to the one the creation returned.
C9_GetAfterCreate ==
    [][\A r \in Reqs :
          (pc[r] # "accepted" /\ pc'[r] = "accepted")
          => GetOrder(orders', resp'[r].order.id) = OrderResponse(200, resp'[r].order)]_vars

\* C9 witness: a get that arrived right after a creation returned the
\* created record.
C9_Witness ==
    \E r, g \in Reqs :
        /\ Accepted(r) /\ req[g].method = "GET" /\ g = r + 1
        /\ req[g].id = resp[r].order.id
        /\ resp[g] = OrderResponse(200, resp[r].order)
        /\ resp[r].status = 201

\* C10: a get on an identifier that no successful creation has returned
\* answers 404 'Order not found', whatever the identifier.
C10_GetUnknownIsNotFound ==
    \A g \in Reqs :
        (/\ req[g].method = "GET"
         /\ \A r \in Reqs : Accepted(r) => resp[r].order.id # req[g].id)
        => resp[g] = ErrorResponse(404, "Order not found")

\* Request r has been answered.
Terminal(r) == pc[r] \in {"accepted", "rejected"}

\* C11: a creation all of whose checks succeeded is answered 201 with a record
\* that carries the input userId, the input items in the same order, and
\* status 'pending'.
C11_CreatedRecordMatchesInput ==
    \A r \in Reqs :
        (IsPost(r) /\ AllChecksOk(r))
        => /\ resp[r].status = 201 /\ resp[r].kind = "order"
           /\ resp[r].order.userId = req[r].userId
           /\ resp[r].order.items = req[r].items
           /\ resp[r].order.status = "pending"
           /\ resp[r].order.id # ""

\* C11 witness: an accepted creation of two different products, the second
\* product before the first.
C11_Witness ==
    \E r \in Reqs :
        /\ Accepted(r) /\ AllChecksOk(r)
        /\ Len(req[r].items.list) = 2
        /\ req[r].items.list[1].productId = "p2"
        /\ req[r].items.list[2].productId = "p1"
        /\ resp[r].order.items = req[r].items

\* C12: when a check of a creation request fails, the request is answered 400
\* with exactly the message that failed check carried.
C12_FailureTextPassedThrough ==
    \A r \in Reqs :
        (IsPost(r) /\ Failed(r))
        => /\ resp[r] = ErrorResponse(400, failure[r])
           /\ failure[r] \in FailureTexts(calls[r][Len(calls[r])])
           /\ results[r][Len(results[r])] = "fail"
           /\ \A i \in 1..(Len(results[r]) - 1) : results[r][i] = "ok"

\* C12 witness: a product check failed with axios's own text after the user
\* check succeeded, and the request was answered with that text.
C12_Witness ==
    \E r \in Reqs :
        /\ Rejected(r) /\ results[r] = <<"ok", "fail">>
        /\ failure[r] = "Request failed with status code 404"
        /\ resp[r].error = "Request failed with status code 404"

\* C13: a creation request with an items array is accepted if and only if its
\* own checks all succeed and rejected if and only if one of its own checks
\* fails, whatever happened to other requests; and after any rejections the
\* process still takes the next request and still continues those in flight.
C13_OutcomeIsLocal ==
    \A r \in Reqs :
        /\ (IsPost(r) /\ req[r].items.defined)
           => /\ Accepted(r) <=> AllChecksOk(r)
              /\ Rejected(r) <=> Failed(r)
        /\ Arrives(r)
           => /\ ENABLED ListOrders(r)
              /\ ENABLED GetOrderById(r, "nonexistent")
              /\ ENABLED PostOrders(r, "u1", JsArray(<<>>))
        /\ InFlight(r) => ENABLED CheckFails(r) /\ ENABLED CheckReturns(r)

\* C13 witness: a request was rejected and another, in flight with it, was
\* accepted afterwards.
C13_Witness ==
    \E q, r \in Reqs :
        /\ Rejected(q) /\ Failed(q)
        /\ Accepted(r) /\ q \in seen[r]
        /\ Len(req[r].items.list) >= 1

\* C14, state part: a creation request has sent a response exactly when it is
\* Accepted (201) or Rejected (400), and is otherwise Validating.
C14_Inv ==
    \A r \in Reqs : IsPost(r) =>
        /\ pc[r] \in {"awaitUser", "awaitItem", "accepted", "rejected"}
        /\ Terminal(r) <=> resp[r] # NoResponse
        /\ Accepted(r) => resp[r].status = 201
        /\ Rejected(r) => resp[r].status = 400

\* C14, step part: a response, once sent, is the only one, and the request
\* stays in the state it ended in.
C14_Step ==
    \A r \in Reqs :
        resp[r] # NoResponse => resp'[r] = resp[r] /\ pc'[r] = pc[r]

\* C14: every creation request whose checks all return reaches Accepted or
\* Rejected in the end, sends exactly one response and never leaves that
\* state.
C14_EveryCreationEnds ==
    /\ \A r \in Reqs : IsPost(r) ~> (Terminal(r) \/ r \in hung)
    /\ []C14_Inv
    /\ [][C14_Step]_vars

\* C14 witness: two creations have ended, one accepted and one rejected, and
\* no check was left outstanding.
C14_Witness ==
    \E q, r \in Reqs :
        /\ hung = {}
        /\ Accepted(q) /\ resp[q].status = 201
        /\ Rejected(r) /\ resp[r].status = 400

\* C15, state part: a request whose check never returns is Validating, has
\* written nothing and sent nothing, and has no step to take; every other
\* request can take its next step.
C15_Inv ==
    \A r \in hung :
        /\ InFlight(r) /\ r \notin wrote /\ resp[r] = NoResponse
        /\ ~ENABLED CheckReturns(r)
        /\ \A q \in Reqs \ hung :
              /\ InFlight(q) => ENABLED CheckReturns(q)
              /\ Arrives(q)
                 => /\ ENABLED ListOrders(q)
                    /\ ENABLED GetOrderById(q, "nonexistent")
                    /\ ENABLED PostOrders(q, "u1", JsArray(<<>>))

\* C15, step part: nothing of a request whose check never returns changes.
C15_Step ==
    \A r \in hung :
        /\ r \in hung'
        /\ pc'[r] = pc[r] /\ calls'[r] = calls[r] /\ results'[r] = results[r]
        /\ resp'[r] = resp[r]

\* C15: a creation request whose outstanding check never returns stays
\* Validating for ever, with no timeout, no response and no write, while every
\* other request, creation or retrieval, can still take its steps (that the
\* other creations then end is C14, which holds with requests hung).
C15_HungCheckBlocksOnlyItsRequest ==
    /\ []C15_Inv
    /\ [][C15_Step]_vars

\* C15 witness: a request is Validating on a check that never returns, and a
\* creation that arrived while it was in flight has been accepted.
C15_Witness ==
    \E r \in hung, q \in Reqs :
        /\ InFlight(r)
        /\ Accepted(q) /\ r \in seen[q]
        /\ Len(orders) = 1

\* C16: every order in the store has status 'pending'.
C16_StatusPending ==
    /\ \A i \in DOMAIN orders : orders[i].value.status = "pending"
    /\ \A r \in Reqs : Accepted(r) => resp[r].order.status = "pending"

\* C16 witness: the store holds two orders, one of them of no items.
C16_Witness ==
    /\ Len(orders) = 2
    /\ \E i \in DOMAIN orders : orders[i].value.items.list = <<>>

\* C17, step: a list request answers 200 with the records the store holds at
\* that moment, each once and nothing else (none while no creation has
\* succeeded), and neither list nor get changes the store.
C17_Step ==
    \A g \in Reqs :
        (pc[g] = "idle" /\ req'[g].method \in {"LIST", "GET"})
        => /\ orders' = orders
           /\ req'[g].method = "LIST"
              => /\ resp'[g].status = 200 /\ resp'[g].kind = "orders"
                 /\ Len(resp'[g].orders) = Len(orders)
                 /\ \A i \in DOMAIN orders :
                       Cardinality({j \in DOMAIN resp'[g].orders :
                                       resp'[g].orders[j] = orders[i].value}) = 1
                 /\ wrote = {} => resp'[g].orders = <<>>

\* C17: list returns every stored order and nothing else, the empty sequence
\* while no creation has succeeded; list and get never modify the store.
C17_ListReturnsStore == [][C17_Step]_vars

\* C17 witness: a list that arrived after an accepted creation returned that
\* one record.
C17_Witness ==
    \E r, g \in Reqs :
        /\ Accepted(r) /\ req[g].method = "LIST" /\ r < g
        /\ resp[g].orders = <<resp[r].order>>

\* C19, state part: a creation request that has not ended is Validating, with
\* a check outstanding; there is no other state to be suspended in.
C19_Inv ==
    \A r \in Reqs : IsPost(r) =>
        /\ pc[r] \in {"awaitUser", "awaitItem", "accepted", "rejected"}
        /\ InFlight(r) => Len(calls[r]) = Len(results[r]) + 1

\* C19, step part: the step in which the last check returns success takes
\* the id from the clock as it stands, inserts the record under it and sends
\* 201, and no other request moves in that step.
C19_Step ==
    \A r \in Reqs :
        (IsPost(r) /\ Len(results'[r]) = Len(results[r]) + 1 /\ AllChecksOk(r)')
        => /\ pc'[r] = "accepted" /\ now' = now
           /\ resp'[r].status = 201
           /\ resp'[r].order.id = DateNowToString(now)
           /\ PropertyGet(orders', resp'[r].order.id)
                 = [tag |-> "order", order |-> resp'[r].order]
           /\ \A q \in Reqs \ {r} :
                 pc'[q] = pc[q] /\ resp'[q] = resp[q] /\ results'[q] = results[q]

\* C19: Validating is the only suspension point of a creation request: once
\* the last check has returned success, taking the id, writing the store and
\* answering 201 are one atomic step.
C19_CreateIsAtomic == []C19_Inv /\ [][C19_Step]_vars

\* C19 witness: a creation was accepted while another was still Validating.
C19_Witness ==
    \E q, r \in Reqs :
        /\ Accepted(r) /\ InFlight(q) /\ q \in seen[r]
        /\ HasOwn(orders, resp[r].order.id)

\* C20: every creation request has at most one existence check in flight:
\* one while it is Validating, none otherwise.
C20_OneCheckInFlight ==
    \A r \in Reqs :
        Len(calls[r]) - Len(results[r]) = (IF InFlight(r) THEN 1 ELSE 0)

\* C20 witness: a request of two items awaits the check of its second item,
\* the two earlier checks having returned.
C20_Witness ==
    \E r \in Reqs :
        /\ pc[r] = "awaitItem" /\ Len(req[r].items.list) = 2
        /\ Len(calls[r]) = 3 /\ Len(results[r]) = 2

\* C18, state part: a stored or returned record never carries the id or the
\* status of the request body; its id is one the clock has produced and its
\* status is 'pending'.
C18_Inv ==
    /\ \A i \in DOMAIN orders :
          /\ orders[i].value.id \in {DateNowToString(t) : t \in 0..now}
          /\ orders[i].value.id \notin BodyIds
          /\ orders[i].value.status = "pending"
    /\ \A r \in Reqs :
          (Accepted(r) /\ req[r].id # "" /\ req[r].status # "")
          => /\ resp[r].order.id # req[r].id
             /\ resp[r].order.status # req[r].status
             /\ resp[r].order.status = "pending"

\* C18, step part: the record an accepted creation stores and returns has the
\* id generated in that step.
C18_Step ==
    \A r \in Reqs :
        (pc[r] # "accepted" /\ pc'[r] = "accepted")
        => /\ resp'[r].order.id = DateNowToString(now)
           /\ PropertyGet(orders', DateNowToString(now)).order.id = DateNowToString(now)

\* C18: the id of a stored order is the one generated at acceptance, never one
\* the caller supplied: a creation whose body carries an id and a status of
\* its own yields a record with the generated id and status 'pending'.
C18_IdAssignedByStore == []C18_Inv /\ [][C18_Step]_vars

\* C18 witness: a creation whose body carried id 'my-id' and status 'shipped'
\* was accepted and its record is in the store.
C18_Witness ==
    \E r \in Reqs :
        /\ Accepted(r) /\ req[r].id = "my-id" /\ req[r].status = "shipped"
        /\ \E i \in DOMAIN orders : orders[i].value = resp[r].order

\* C21, state part: a creation with an empty items list whose user check has
\* succeeded is Accepted, has made the user check and no other, and was
\* answered 201 with a record of empty items and status 'pending'.
C21_Inv ==
    \A r \in Reqs :
        (IsPost(r) /\ req[r].items = JsArray(<<>>)
            /\ Len(results[r]) >= 1 /\ results[r][1] = "ok")
        => /\ Accepted(r)
           /\ calls[r] = <<UserCall(req[r].userId)>>
           /\ results[r] = <<"ok">>
           /\ r \in wrote
           /\ resp[r].status = 201 /\ resp[r].kind = "order"
           /\ resp[r].order.items = JsArray(<<>>)
           /\ resp[r].order.userId = req[r].userId
           /\ resp[r].order.status = "pending"

\* C21, step part: the step in which the user check of such a creation
\* succeeds stores that record under the id it returns.
C21_Step ==
    \A r \in Reqs :
        (IsPost(r) /\ req[r].items = JsArray(<<>>)
            /\ results[r] = <<>> /\ results'[r] = <<"ok">>)
        => /\ HasOwn(orders', resp'[r].order.id)
           /\ PropertyGet(orders', resp'[r].order.id).order = resp'[r].order
           /\ resp'[r].order.items = JsArray(<<>>)
           /\ resp'[r].order.status = "pending"

\* C21: a creation with an empty items list and a succeeding user check is
\* Accepted after exactly one existence check, the user check, and stores an
\* order with empty items and status 'pending'.
C21_EmptyItemsAccepted == []C21_Inv /\ [][C21_Step]_vars

\* C21 witness: an accepted creation with an empty items list whose record is
\* in the store, after one check.
C21_Witness ==
    \E r \in Reqs :
        /\ Accepted(r) /\ req[r].items = JsArray(<<>>)
        /\ Len(calls[r]) = 1
        /\ \E i \in DOMAIN orders :
              /\ orders[i].value = resp[r].order
              /\ orders[i].value.items.list = <<>>

\* C22, state part: a creation whose items field is absent has issued the
\* user check and nothing else and has written nothing; once the user check
\* has succeeded it is answered 400.
C22_Inv ==
    \A r \in Reqs :
        (IsPost(r) /\ ~req[r].items.defined)
        => /\ calls[r] = <<UserCall(req[r].userId)>>
           /\ r \notin wrote
           /\ ~Accepted(r)
           /\ (Len(results[r]) >= 1 /\ results[r][1] = "ok")
              => /\ Rejected(r)
                 /\ results[r] = <<"ok">>
                 /\ resp[r].status = 400 /\ resp[r].kind = "error"

\* C22, step part: no step of such a creation changes the store.
C22_Step ==
    \A r \in Reqs :
        (IsPost(r) /\ ~req[r].items.defined /\ pc'[r] # pc[r])
        => orders' = orders

\* C22: a creation whose items field is absent still issues the user check
\* first; if that check succeeds the request ends with a 400 response, issues
\* no product check and writes nothing to the store.
C22_AbsentItemsRejected == []C22_Inv /\ [][C22_Step]_vars

\* C22 witness: a creation without items was rejected after its user check
\* succeeded, while the store holds another request's order.
C22_Witness ==
    \E r \in Reqs :
        /\ IsPost(r) /\ ~req[r].items.defined
        /\ Rejected(r) /\ results[r] = <<"ok">>
        /\ resp[r].status = 400
        /\ Len(orders) = 1

\* C23: in every reachable state each record of the store is stored under
\* its own id: store[k].id = k for every key k.
C23_StoredUnderOwnId ==
    \A i \in DOMAIN orders :
        /\ PropertyGet(orders, orders[i].key).tag = "order"
        /\ PropertyGet(orders, orders[i].key).order.id = orders[i].key

\* C23 witness: the store holds the records of two creations under two keys.
C23_Witness ==
    /\ Len(orders) = 2
    /\ Cardinality(wrote) = 2
    /\ orders[1].key # orders[2].key

\* C24, state part: a list answer names the ids in the order the store holds
\* them, and stays the beginning of every later enumeration.
C24_Inv ==
    /\ Len(listed.orders) <= Len(orders)
    /\ \A i \in DOMAIN listed.orders :
          /\ listed.orders[i].id = orders[i].key
          /\ \A j \in DOMAIN listed.orders : i # j => listed.orders[i].id # listed.orders[j].id

\* C24, step part: a list step answers with the stored orders in the order of
\* the store; a write under a new id puts the record last and leaves the
\* others where they are; a write under an id already present replaces that
\* record where it stands.
C24_Step ==
    /\ listed' # listed
       => /\ Len(listed'.orders) = Len(orders)
          /\ \A i \in DOMAIN orders : listed'.orders[i] = orders[i].value
    /\ orders' # orders
       => \E r \in Reqs :
             /\ pc[r] # "accepted" /\ pc'[r] = "accepted"
             /\ LET k == resp'[r].order.id
                IN  IF HasOwn(orders, k)
                    THEN /\ Len(orders') = Len(orders)
                         /\ \A i \in DOMAIN orders :
                               /\ orders'[i].key = orders[i].key
                               /\ orders[i].key # k => orders'[i] = orders[i]
                    ELSE /\ Len(orders') = Len(orders) + 1
                         /\ orders'[Len(orders')].key = k
                         /\ \A i \in DOMAIN orders : orders'[i] = orders[i]

LookupDone(g) == lookups[g].handler = "product" /\ lookups[g].pc = "done"

\* Goroutines between their RLock and their RUnlock.
ReadersInside == {g \in Lookups : lookups[g].pc \in {"read", "runlock", "listing"}}

\* C25, state part: a finished lookup answered 200 with the product when its
\* id is a key of the inventory and 404 'Product not found' when it is not;
\* the inventory is as main() left it; the mutex is read-held by exactly the
\* goroutines inside their locked section, so it is free once they are out;
\* a goroutine that has started can always take its next step.
C25_Inv ==
    /\ inventory = MainInventory
    /\ ~mu.writer
    /\ mu.readers = Cardinality(ReadersInside)
    /\ \A g \in Lookups :
          /\ LookupDone(g) =>
                IF lookups[g].productID \in DOMAIN inventory
                THEN /\ lookups[g].reply.status = 200
                     /\ lookups[g].reply.product = EncodeProduct(inventory[lookups[g].productID])
                     /\ lookups[g].reply.product.id = lookups[g].productID
                     /\ lookups[g].reply.error = ""
                ELSE /\ lookups[g].reply.status = 404
                     /\ lookups[g].reply.error = "Product not found"
                     /\ lookups[g].reply.product = EncodeProduct(ZeroProduct)
          /\ lookups[g].pc \notin {"idle", "done"} => ENABLED LookupStep(g)

\* C25, step part: no step of a handler changes the inventory.
C25_Step == inventory' = inventory

\* C25: getProductHandler answers 200 with the product if and only if the
\* requested id is a key of the inventory map and 404 'Product not found'
\* otherwise, never modifies the inventory, and any number of concurrent
\* lookups all complete with the read lock released.
C25_ProductLookupContract ==
    /\ []C25_Inv
    /\ [][C25_Step]_vars
    /\ \A g \in Lookups :
          (lookups[g].pc # "idle") ~> (lookups[g].pc = "done" /\ g \notin ReadersInside)

\* C25 witness: two lookups served together have both completed, one with
\* the product and one with 404, and the mutex is free.
C25_Witness ==
    /\ \A g \in Lookups : LookupDone(g)
    /\ \E g, h \in Lookups :
          /\ lookups[g].reply.status = 200 /\ lookups[g].reply.product.id = "prod-2"
          /\ lookups[h].reply.status = 404 /\ lookups[h].productID = "nonexistent"
    /\ mu.readers = 0

====
